---- MODULE Spec2Model ----
(***************************************************************************)
(* do-dyndns: a dynamic DNS client for DigitalOcean.                       *)
(*                                                                         *)
(* One run of the program (main, src/main.go:567-621) reads the            *)
(* configuration, resolves the public IP and then, for every desired       *)
(* record in order, lists the records of the record's zone and edits,      *)
(* creates or leaves the matching provider record.  The model follows the  *)
(* run step by step; a step boundary is placed at every call to an         *)
(* external collaborator (configuration file, address-echo service,        *)
(* provider API).  The provider's zone data, the configuration file and    *)
(* the process environment outlive a run, so a later run (the next cron    *)
(* tick) starts from what the earlier one left behind.                     *)
(*                                                                         *)
(* Text that the program takes apart (subdomains, host labels, zones) is   *)
(* a sequence of one-character strings; text that it only compares or      *)
(* passes on (tokens, paths, address literals) is a string.                *)
(***************************************************************************)
EXTENDS Integers, Sequences, FiniteSets, TLC

VARIABLES
    env,        \* process environment and command line of the run
    file,       \* the configuration file on disk
    provider,   \* zone -> the zone's records in listing order
    nextId,     \* next record id the provider assigns
    run,        \* number of the current run (cron tick)
    prev,       \* how the previous run ended and what it left at the provider
    pc,         \* position of the current run in main / setSubdomainRecords
    status,     \* "running", "exit0" or "exit1"
    config,     \* Config value returned by readConfig
    logger,     \* TRUE once initLogger has installed the log-file handler
    ip,         \* net.IP returned by myPublicIP
    records,    \* the list handed to setSubdomainRecords
    k,          \* index of the record the loop is at
    listing,    \* records returned by the listing call for record k
    calls,      \* provider calls issued by the current run, in order
    results,    \* (resp, err) returned by setSubdomainIP, per record
    stdout,     \* lines written to standard output
    stderr,     \* lines written to standard error
    logfile,    \* lines written to the log file
    cached      \* the same run with one listing per zone, kept and reused

vars == <<env, file, provider, nextId, run, prev, pc, status, config, logger,
          ip, records, k, listing, calls, results, stdout, stderr, logfile,
          cached>>

-----------------------------------------------------------------------------
(* Bounds of the model. *)

\* Longest initial record list of a zone.
MaxZone == 2
\* Longest list of desired records in the configuration file.
MaxRecords == 2
\* Number of runs in a behaviour.
MaxRuns == 2
\* Records returned by one listing request.  The listing is requested with
\* an empty godo.ListOptions, so the provider answers with its first page
\* only; the page size is scaled down with the zone sizes of the model.
PerPage == 2

-----------------------------------------------------------------------------
(* Text helpers. *)

Min(a, b) == IF a < b THEN a ELSE b

\* strings.Index(s, "."): 0-based index of the first '.', -1 if there is none.
RECURSIVE IndexFrom(_, _)
IndexFrom(s, i) ==
    IF i > Len(s) THEN -1
    ELSE IF s[i] = "." THEN i - 1
    ELSE IndexFrom(s, i + 1)

\* A split at the last '.' instead: 0-based index of the last '.', -1 if
\* there is none.
RECURSIVE LastIndexFrom(_, _)
LastIndexFrom(s, i) ==
    IF i < 1 THEN -1
    ELSE IF s[i] = "." THEN i - 1
    ELSE LastIndexFrom(s, i - 1)

LastIndex(s) == LastIndexFrom(s, Len(s))

Index(s) == IndexFrom(s, 1)

\* Go slice expressions s[:i] and s[i:] on 0-based offsets.
SliceTo(s, i) == SubSeq(s, 1, i)
SliceFrom(s, i) == SubSeq(s, i + 1, Len(s))

-----------------------------------------------------------------------------
(* Addresses.  A net.IP value is named by "v4:" or "v6:" and its canonical  *)
(* text; "nil" is the nil net.IP.  An IPv4-mapped IPv6 literal parses to    *)
(* the IPv4 address, and String() prints IPv6 text in lower case.           *)

\* strings.TrimSpace on the response bodies the address-echo service sends.
TrimSpace(body) ==
    CASE body = "203.0.113.9\n" -> "203.0.113.9"
      [] body = " 198.51.100.1\n" -> "198.51.100.1"
      [] body = "2001:DB8::1\n" -> "2001:DB8::1"
      [] body = "\n" -> ""
      [] OTHER -> body

\* net.ParseIP.
ParseIP(text) ==
    CASE text = "203.0.113.9" -> "v4:203.0.113.9"
      [] text = "::ffff:203.0.113.9" -> "v4:203.0.113.9"
      [] text = "198.51.100.1" -> "v4:198.51.100.1"
      [] text = "2001:db8::1" -> "v6:2001:db8::1"
      [] text = "2001:DB8::1" -> "v6:2001:db8::1"
      [] OTHER -> "nil"

\* net.IP.String().
IPString(addr) ==
    CASE addr = "v4:203.0.113.9" -> "203.0.113.9"
      [] addr = "v4:198.51.100.1" -> "198.51.100.1"
      [] addr = "v6:2001:db8::1" -> "2001:db8::1"
      [] OTHER -> "<nil>"

-----------------------------------------------------------------------------
(* Output routing: writeOut, writeErr, die. *)

\* A routing that looks at the terminal alone.
OnConsoleTty == env.tty

\* tty || systemd
OnConsole == env.tty \/ env.systemd

\* writeOut: standard output on a console, slog.Info otherwise.  Before
\* initLogger has run, slog's default handler writes to standard error.
WriteOut(line) ==
    /\ stdout' = IF OnConsole THEN Append(stdout, line) ELSE stdout
    /\ logfile' = IF ~OnConsole /\ logger THEN Append(logfile, line) ELSE logfile
    /\ stderr' = IF ~OnConsole /\ ~logger THEN Append(stderr, line) ELSE stderr

\* writeErr: standard error on a console, slog.Warn otherwise.
WriteErr(line) ==
    /\ stderr' = IF OnConsole \/ ~logger THEN Append(stderr, line) ELSE stderr
    /\ logfile' = IF ~OnConsole /\ logger THEN Append(logfile, line) ELSE logfile
    /\ stdout' = stdout

\* What a mutated die would do: report and go on with the next record.
AfterDieContinue(kk) == [status |-> "running", pc |-> "loop", k |-> kk + 1]

\* A die that ends the process with status 0.
AfterDieExit0(kk) == [status |-> "exit0", pc |-> "exit", k |-> kk]

\* os.Exit(1) at the end of die: the process ends where it stands.
AfterDie(kk) == [status |-> "exit1", pc |-> "exit", k |-> kk]

\* die(text, err): one diagnostic line prefixed with the program name, then
\* exit status 1.  arg is the value formatted into text, err the wrapped
\* error ("" for nil).
Die(text, arg, err) ==
    /\ WriteErr([prog |-> "do-dyndns", text |-> text, arg |-> arg, err |-> err])
    /\ status' = AfterDie(k).status
    /\ pc' = AfterDie(k).pc
    /\ k' = AfterDie(k).k

-----------------------------------------------------------------------------
(* Validation and splitting of a desired record. *)

\* A type check that lets every type through.
ValidTypeAny(recordType) == TRUE

\* setSubdomainRecords: record.Type != "A" && record.Type != "AAAA" is fatal.
ValidType(recordType) == recordType = "A" \/ recordType = "AAAA"

\* A separator check that is never negative.
HasSeparatorAlways(subdomain) == TRUE

\* setSubdomainIP: i := strings.Index(subdomain, "."); i < 0 is fatal.
HasSeparator(subdomain) == Index(subdomain) >= 0

\* name := subdomain[:i]
HostLabel(subdomain) == SliceTo(subdomain, Index(subdomain))

\* domain := subdomain[i+1:]
ZoneOf(subdomain) == SliceFrom(subdomain, Index(subdomain) + 1)

\* The checks in another order: the subdomain before the type.
DiagnosticSubdomainFirst(record) ==
    IF record.Subdomain = <<>> THEN "missing subdomain"
    ELSE IF ~HasSeparator(record.Subdomain) THEN "invalid subdomain"
    ELSE IF ~ValidType(record.Type) THEN "invalid type"
    ELSE ""

\* The diagnostic the loop body ends with for a record that does not pass
\* the checks, "" for a record that passes: the type is checked first, then
\* the empty subdomain, then (inside setSubdomainIP) the separator.
Diagnostic(record) ==
    IF ~ValidType(record.Type) THEN "invalid type"
    ELSE IF record.Subdomain = <<>> THEN "missing subdomain"
    ELSE IF ~HasSeparator(record.Subdomain) THEN "invalid subdomain"
    ELSE ""

-----------------------------------------------------------------------------
(* The provider: zones of records, listed, edited and created. *)

\* client.Domains.Records(ctx, domain, &godo.ListOptions{}): one request,
\* answered with the first page of the zone's records.
FirstPageOf(recs) == SubSeq(recs, 1, Min(PerPage, Len(recs)))

FirstPage(zone) == FirstPageOf(provider[zone])

\* Zone data p after EditRecord(domain, id, request) was accepted.
EditedIn(p, zone, id, request) ==
    [p EXCEPT ![zone] =
        [i \in 1..Len(@) |->
            IF @[i].ID = id
            THEN [ID |-> id, Type |-> request.Type, Name |-> request.Name,
                  Data |-> request.Data]
            ELSE @[i]]]

\* The provider after EditRecord(domain, id, request) was accepted.
Edited(zone, id, request) == EditedIn(provider, zone, id, request)

\* Zone data p after CreateRecord(domain, request) was accepted: the new
\* record gets the next id, n, and is listed last.
CreatedIn(p, n, zone, request) ==
    [p EXCEPT ![zone] =
        Append(@, [ID |-> n, Type |-> request.Type, Name |-> request.Name,
                   Data |-> request.Data])]

\* The provider after CreateRecord(domain, request) was accepted.
Created(zone, request) == CreatedIn(provider, nextId, zone, request)

-----------------------------------------------------------------------------
(* The reconciliation of one desired record with a listing. *)

\* A match on the host label alone.
MatchesName(record, recordType, name) == record.Name = name

\* record.Type == recordType && record.Name == name
Matches(record, recordType, name) ==
    record.Type = recordType /\ record.Name = name

\* Position in the listing of the first record the loop stops at, 0 when
\* the loop runs to its end.
RECURSIVE FirstMatchFrom(_, _, _, _)
FirstMatchFrom(recs, recordType, name, i) ==
    IF i > Len(recs) THEN 0
    ELSE IF Matches(recs[i], recordType, name) THEN i
    ELSE FirstMatchFrom(recs, recordType, name, i + 1)

\* A scan that keeps the last matching record instead of stopping at the
\* first.
RECURSIVE LastMatchFrom(_, _, _, _)
LastMatchFrom(recs, recordType, name, i) ==
    IF i < 1 THEN 0
    ELSE IF recs[i].Type = recordType /\ recs[i].Name = name THEN i
    ELSE LastMatchFrom(recs, recordType, name, i - 1)

LastMatch(recs, recordType, name) == LastMatchFrom(recs, recordType, name, Len(recs))

FirstMatch(recs, recordType, name) == FirstMatchFrom(recs, recordType, name, 1)

\* An edit issued whatever the record holds.
StaleAlways(record, addr) == TRUE

\* No edit issued whatever the record holds.
StaleNever(record, addr) == FALSE

\* record.Data != ip.String()
Stale(record, addr) == record.Data # IPString(addr)

\* A request that carries the whole subdomain as the name.
RequestWholeName(recordType, subdomain, addr) ==
    [Type |-> recordType, Name |-> subdomain, Data |-> IPString(addr)]

\* &godo.DomainRecordEditRequest{Type: recordType, Name: name, Data: ip.String()}
Request(recordType, subdomain, addr) ==
    [Type |-> recordType, Name |-> HostLabel(subdomain), Data |-> IPString(addr)]

\* What setSubdomainIP does with a listing: "none", "edit" (of record id) or
\* "create".
Decision(recs, recordType, subdomain, addr) ==
    LET m == FirstMatch(recs, recordType, HostLabel(subdomain)) IN
    IF m = 0 THEN [op |-> "create", id |-> 0]
    ELSE IF Stale(recs[m], addr) THEN [op |-> "edit", id |-> recs[m].ID]
    ELSE [op |-> "none", id |-> 0]

-----------------------------------------------------------------------------
(* The run: main and setSubdomainRecords, one action per step. *)

NoRequest == [Type |-> "", Name |-> <<>>, Data |-> ""]
NoConfig == [Token |-> "", Log |-> "", Records |-> <<>>]

\* The record the loop is at.
Current == records[k]

\* A provider call as it is logged: the operation, the index of the desired
\* record it was issued for, the zone, the record id (edit), the request
\* (edit, create), whether the provider accepted it and the records it
\* returned (list).

\* An error check that lets every error pass.
IsErrorNever(err) == FALSE

\* err != nil
IsError(err) == err # ""

Call(op, zone, id, request, ok, returned) ==
    [op |-> op, k |-> k, zone |-> zone, id |-> id, request |-> request, ok |-> ok,
     returned |-> returned]

\* main: parseArguments, then the help and version exits.
ParseArguments ==
    /\ pc = "main" /\ status = "running"
    /\ IF env.help \/ env.version
       THEN /\ stderr' = Append(stderr, [prog |-> "do-dyndns",
                             text |-> IF env.help THEN "usage" ELSE "version",
                             arg |-> "", err |-> ""])
            /\ status' = "exit0"
            /\ pc' = "exit"
       ELSE /\ pc' = "readConfig"
            /\ UNCHANGED <<stderr, status>>
    /\ UNCHANGED cached
    /\ UNCHANGED <<env, file, provider, nextId, run, prev, config, logger, ip,
                   records, k, listing, calls, results, stdout, logfile>>

\* The value of a source that may be unset: over, unless it is empty.
Override(under, over) == IF over # "" THEN over ELSE under

\* A merge in which the environment has the last word.
MergedEnvLast(fileValue, envValue, cmdValue) ==
    Override(Override(fileValue, cmdValue), envValue)

\* readConfig: the value of the file, overridden by the environment
\* variable, overridden by the command line.
Merged(fileValue, envValue, cmdValue) ==
    Override(Override(fileValue, envValue), cmdValue)

\* A readConfig that goes on without a file.
FileErrorIgnored(f) == ""

\* readConfigFile: the error of a file that is in neither location or does
\* not parse, "" for a file that was read.
FileError(f) == IF f.state # "ok" THEN f.state ELSE ""

\* readConfig(cmdToken, cmdLog): the file first; a file that cannot be read
\* or parsed is an error.  Then the environment overrides the file and the
\* command line overrides both.
ReadConfig ==
    /\ pc = "readConfig" /\ status = "running"
    /\ IF FileError(file) # ""
       THEN /\ Die("error reading configuration", "", FileError(file))
            /\ UNCHANGED config
       ELSE /\ config' =
                 [Token |-> Merged(file.Token, env.envToken, env.cmdToken),
                  Log |-> Merged(file.Log, env.envLog, env.cmdLog),
                  Records |-> file.Records]
            /\ pc' = "initLogger"
            /\ UNCHANGED <<status, k, stdout, stderr, logfile>>
    /\ UNCHANGED cached
    /\ UNCHANGED <<env, file, provider, nextId, run, prev, logger, ip, records,
                   listing, calls, results>>

\* main: if !tty && !systemd, initLogger(config.Log), which may fail.
InitLogger ==
    /\ pc = "initLogger" /\ status = "running"
    /\ IF ~env.tty /\ ~env.systemd
       THEN \E ok \in BOOLEAN :
               IF ok
               THEN /\ logger' = TRUE
                    /\ pc' = "token"
                    /\ UNCHANGED <<status, k, stdout, stderr, logfile>>
               ELSE /\ Die("error writing to log file", "", "open failed")
                    /\ UNCHANGED logger
       ELSE /\ pc' = "token"
            /\ UNCHANGED <<logger, status, k, stdout, stderr, logfile>>
    /\ UNCHANGED cached
    /\ UNCHANGED <<env, file, provider, nextId, run, prev, config, ip, records,
                   listing, calls, results>>

\* A token check that lets the empty token through.
MissingTokenNever(token) == FALSE

\* config.Token == ""
MissingToken(token) == token = ""

\* main: an empty token is fatal.
CheckToken ==
    /\ pc = "token" /\ status = "running"
    /\ IF MissingToken(config.Token)
       THEN Die("missing token", "", "")
       ELSE /\ pc' = "ip"
            /\ UNCHANGED <<status, k, stdout, stderr, logfile>>
    /\ UNCHANGED cached
    /\ UNCHANGED <<env, file, provider, nextId, run, prev, config, logger, ip,
                   records, listing, calls, results>>

\* parseArguments: the value of --type, "A" when the flag is not given.
TypeFlag(given) == IF given = "" THEN "A" ELSE given

\* A list in which the ad-hoc record is added to the configured ones.
RunRecordsAdded(subdomain, recordType, configured) ==
    IF subdomain # <<>>
    THEN Append(configured, [Type |-> recordType, Subdomain |-> subdomain])
    ELSE configured

\* main: the list handed to setSubdomainRecords is the one ad-hoc record
\* when a subdomain was given on the command line, config.Records otherwise.
RunRecords(subdomain, recordType, configured) ==
    IF subdomain # <<>>
    THEN <<[Type |-> recordType, Subdomain |-> subdomain]>>
    ELSE configured

\* The return of the earlier myPublicIP, "return ip, nil": the error set for
\* a nil address is dropped.
ParseErrorDropped(addr) == ""

\* myPublicIP: if ip == nil { err = errors.New("no IPv4 found") }; return ip, err
ParseError(addr) == IF addr = "nil" THEN "no IPv4 found" ELSE ""

\* main: ip, err = myPublicIP(); on success the list for setSubdomainRecords
\* is chosen: the ad-hoc record when a subdomain was given on the command
\* line, the configured records otherwise.
MyPublicIP ==
    /\ pc = "ip" /\ status = "running"
    /\ \E ok \in BOOLEAN :
          LET addr == ParseIP(TrimSpace(env.body)) IN
          IF ~ok
          THEN /\ Die("error getting public IP", "", "get failed")
               /\ UNCHANGED <<ip, records>>
          ELSE IF ParseError(addr) # ""
          THEN /\ Die("error getting public IP", "", ParseError(addr))
               /\ UNCHANGED <<ip, records>>
          ELSE /\ ip' = addr
               /\ records' = RunRecords(env.cmdSubdomain, TypeFlag(env.cmdType),
                                        config.Records)
               /\ k' = 1
               /\ pc' = "loop"
               /\ UNCHANGED <<status, stdout, stderr, logfile>>
    /\ UNCHANGED cached
    /\ UNCHANGED <<env, file, provider, nextId, run, prev, config, logger,
                   listing, calls, results>>

\* setSubdomainRecords, head of the loop body for record k: the type and the
\* empty subdomain are checked, then setSubdomainIP looks for the separator.
BeginRecord ==
    /\ pc = "loop" /\ status = "running"
    /\ k <= Len(records)
    /\ IF Diagnostic(Current) = "invalid type"
       THEN Die("invalid type", Current.Type, "")
       ELSE IF Diagnostic(Current) = "missing subdomain"
       THEN Die("missing subdomain", "", "")
       ELSE IF Diagnostic(Current) = "invalid subdomain"
       THEN Die("invalid subdomain", Current.Subdomain, "")
       ELSE /\ pc' = "list"
            /\ UNCHANGED <<status, k, stdout, stderr, logfile>>
    /\ UNCHANGED cached
    /\ UNCHANGED <<env, file, provider, nextId, run, prev, config, logger, ip,
                   records, listing, calls, results>>

\* The run with one listing per zone, before its first record: no listing
\* kept, zone data p with next id n, no edit or create issued, not ended.
NoCache(p, n) ==
    [listings |-> [zone \in {} |-> <<>>], provider |-> p, nextId |-> n,
     calls |-> <<>>, alive |-> TRUE]

\* The run with one listing per zone at the listing step of the record the
\* loop is at: the kept listing of the zone when there is one, otherwise the
\* listing call, whose answer is kept.
CachedList(zone, ok) ==
    IF ~cached.alive \/ zone \in DOMAIN cached.listings THEN cached
    ELSE IF ok /\ zone \in DOMAIN cached.provider
    THEN [cached EXCEPT !.listings =
             (zone :> FirstPageOf(cached.provider[zone])) @@ @]
    ELSE [cached EXCEPT !.alive = FALSE]

\* The run with one listing per zone after the listing step: the scan of
\* the kept listing and the edit or create call it leads to.
CachedReconcile(zone, ok) ==
    IF ~cached.alive \/ zone \notin DOMAIN cached.listings THEN cached
    ELSE LET d == Decision(cached.listings[zone], Current.Type,
                           Current.Subdomain, ip)
             request == Request(Current.Type, Current.Subdomain, ip)
             issued == Append(cached.calls,
                              Call(d.op, zone, d.id, request, ok, <<>>))
         IN
         IF d.op = "none" THEN cached
         ELSE IF ~ok THEN [cached EXCEPT !.calls = issued, !.alive = FALSE]
         ELSE IF d.op = "edit"
         THEN [cached EXCEPT !.calls = issued,
                             !.provider = EditedIn(@, zone, d.id, request)]
         ELSE [cached EXCEPT !.calls = issued,
                             !.provider = CreatedIn(@, cached.nextId, zone, request),
                             !.nextId = @ + 1]

\* setSubdomainIP: the listing call for the record's zone.  The provider
\* refuses a zone it does not hold, and any call may fail in transport; the
\* error is returned and the caller dies.
ListRecords ==
    /\ pc = "list" /\ status = "running"
    /\ LET zone == ZoneOf(Current.Subdomain) IN
       \E ok \in BOOLEAN :
          /\ cached' = CachedList(zone, ok)
          /\ IF ok /\ zone \in DOMAIN provider
             THEN /\ calls' = Append(calls, Call("list", zone, 0, NoRequest, TRUE,
                                                 FirstPage(zone)))
                  /\ listing' = FirstPage(zone)
                  /\ pc' = "sync"
                  /\ UNCHANGED <<results, status, k, stdout, stderr, logfile>>
             ELSE /\ calls' = Append(calls, Call("list", zone, 0, NoRequest, FALSE,
                                                 <<>>))
                  /\ results' = Append(results, [resp |-> "", err |-> "list failed"])
                  /\ IF IsError("list failed")
                     THEN Die("error setting subdomain IP", "", "list failed")
                     ELSE /\ k' = k + 1
                          /\ pc' = "loop"
                          /\ UNCHANGED <<status, stdout, stderr, logfile>>
                  /\ UNCHANGED listing
    /\ UNCHANGED <<env, file, provider, nextId, run, prev, config, logger, ip,
                   records>>

\* A report line that names the host label instead of the subdomain.
ReportLabel(respStatus) ==
    [status |-> respStatus, type |-> Current.Type, ip |-> IPString(ip),
     subdomain |-> HostLabel(Current.Subdomain)]

\* The report line of a mutated record.
Report(respStatus) ==
    [status |-> respStatus, type |-> Current.Type, ip |-> IPString(ip),
     subdomain |-> Current.Subdomain]

\* setSubdomainIP after the listing: the scan, the edit or create call it
\* leads to, and the caller's handling of (resp, err).
Reconcile ==
    /\ pc = "sync" /\ status = "running"
    /\ LET zone == ZoneOf(Current.Subdomain)
           d == Decision(listing, Current.Type, Current.Subdomain, ip)
           request == Request(Current.Type, Current.Subdomain, ip)
       IN
       \E ok \in BOOLEAN :
          /\ cached' = CachedReconcile(zone, ok)
          /\ IF d.op = "none"
             THEN /\ results' = Append(results, [resp |-> "", err |-> ""])
                  /\ k' = k + 1
                  /\ pc' = "loop"
                  /\ UNCHANGED <<provider, nextId, calls, status, stdout, stderr,
                                 logfile>>
             ELSE /\ calls' = Append(calls, Call(d.op, zone, d.id, request, ok, <<>>))
                  /\ IF ~ok
                     THEN /\ results' = Append(results, [resp |-> "",
                                                        err |-> d.op \o " failed"])
                          /\ IF IsError(d.op \o " failed")
                             THEN Die("error setting subdomain IP", "",
                                      d.op \o " failed")
                             ELSE /\ k' = k + 1
                                  /\ pc' = "loop"
                                  /\ UNCHANGED <<status, stdout, stderr, logfile>>
                          /\ UNCHANGED <<provider, nextId>>
                     ELSE /\ provider' = IF d.op = "edit"
                                         THEN Edited(zone, d.id, request)
                                         ELSE Created(zone, request)
                          /\ nextId' = IF d.op = "edit" THEN nextId ELSE nextId + 1
                          /\ LET resp == IF d.op = "edit" THEN "200 OK"
                                         ELSE "201 Created" IN
                             /\ results' = Append(results, [resp |-> resp, err |-> ""])
                             /\ WriteOut(Report(resp))
                          /\ k' = k + 1
                          /\ pc' = "loop"
                          /\ UNCHANGED status
    /\ UNCHANGED <<env, file, run, prev, config, logger, ip, records, listing>>

\* setSubdomainRecords and main return: exit status 0.
Finish ==
    /\ pc = "loop" /\ status = "running"
    /\ k > Len(records)
    /\ status' = "exit0"
    /\ pc' = "exit"
    /\ UNCHANGED cached
    /\ UNCHANGED <<env, file, provider, nextId, run, prev, config, logger, ip,
                   records, k, listing, calls, results, stdout, stderr, logfile>>

\* The next scheduled run: a new process on the same host, with the same
\* configuration file, environment and public address, against the
\* provider records the runs so far have left.
NextRun ==
    /\ status # "running"
    /\ run < MaxRuns
    /\ run' = run + 1
    /\ prev' = [status |-> status, records |-> records, ip |-> ip,
                logged |-> Len(logfile), provider |-> provider]
    /\ pc' = "main"
    /\ status' = "running"
    /\ config' = NoConfig
    /\ logger' = FALSE
    /\ ip' = "nil"
    /\ records' = <<>>
    /\ k' = 0
    /\ listing' = <<>>
    /\ calls' = <<>>
    /\ results' = <<>>
    /\ stdout' = <<>>
    /\ stderr' = <<>>
    /\ cached' = NoCache(provider, nextId)
    /\ UNCHANGED <<env, file, provider, nextId, logfile>>

Next ==
    \/ ParseArguments
    \/ ReadConfig
    \/ InitLogger
    \/ CheckToken
    \/ MyPublicIP
    \/ BeginRecord
    \/ ListRecords
    \/ Reconcile
    \/ Finish
    \/ NextRun

-----------------------------------------------------------------------------
(* Initial states: the environment a first run can find. *)

\* Sequences over S of length at most n.
SeqsUpTo(S, n) == UNION {[1..m -> S] : m \in 0..n}

Sub_a == <<"a">>
Sub_az == <<"a", ".", "z">>
Sub_bz == <<"b", ".", "z">>
Sub_abz == <<"a", ".", "b", ".", "z">>
Sub_dotz == <<".", "z">>
Sub_adot == <<"a", ".">>
Zone_z == <<"z">>
Zone_bz == <<"b", ".", "z">>

\* Well-formed desired records: both types and both labels of zone z.
ValidRecords ==
    {[Type |-> "A", Subdomain |-> Sub_az],
     [Type |-> "AAAA", Subdomain |-> Sub_az],
     [Type |-> "A", Subdomain |-> Sub_bz]}

\* Desired records a configuration file may list: the well-formed ones and
\* one for each way of failing the checks.
DesiredRecords ==
    ValidRecords \cup
    {[Type |-> "TXT", Subdomain |-> Sub_az],
     [Type |-> "A", Subdomain |-> Sub_a],
     [Type |-> "TXT", Subdomain |-> Sub_a],
     [Type |-> "A", Subdomain |-> <<>>]}

\* Desired records of two zones: a.z in zone z and a.b.z in zone b.z.
TwoZoneRecords ==
    {[Type |-> "A", Subdomain |-> Sub_az],
     [Type |-> "A", Subdomain |-> Sub_abz]}

\* Records zone z may hold before the first run.
ZoneRecords ==
    {[Type |-> "A", Name |-> <<"a">>, Data |-> "203.0.113.9"],
     [Type |-> "A", Name |-> <<"a">>, Data |-> "198.51.100.1"],
     [Type |-> "AAAA", Name |-> <<"a">>, Data |-> "198.51.100.1"]}

\* A zone's records with the ids the provider gave them, in listing order.
WithIds(recs, first) ==
    [i \in 1..Len(recs) |->
        [ID |-> first + i - 1, Type |-> recs[i].Type, Name |-> recs[i].Name,
         Data |-> recs[i].Data]]

\* An interactive run with nothing on the command line or in the environment.
PlainEnv ==
    [tty |-> TRUE, systemd |-> FALSE, help |-> FALSE, version |-> FALSE,
     cmdToken |-> "", cmdLog |-> "", cmdType |-> "", cmdSubdomain |-> <<>>,
     envToken |-> "", envLog |-> "", body |-> "203.0.113.9\n"]

PlainFile ==
    [state |-> "ok", Token |-> "tok", Log |-> "",
     Records |-> <<[Type |-> "A", Subdomain |-> Sub_az]>>]

\* Environments in which a run ends before, or is routed around, the loop.
OtherEnvs ==
    {[PlainEnv EXCEPT !.help = TRUE],
     [PlainEnv EXCEPT !.version = TRUE],
     [PlainEnv EXCEPT !.tty = FALSE],
     [PlainEnv EXCEPT !.tty = FALSE, !.systemd = TRUE],
     [PlainEnv EXCEPT !.body = "no address"],
     [PlainEnv EXCEPT !.body = "\n"],
     [PlainEnv EXCEPT !.body = "no address", !.tty = FALSE],
     [PlainEnv EXCEPT !.tty = TRUE, !.systemd = TRUE],
     [PlainEnv EXCEPT !.tty = FALSE, !.help = TRUE],
     [PlainEnv EXCEPT !.cmdSubdomain = Sub_bz, !.cmdType = "AAAA"],
     [PlainEnv EXCEPT !.cmdSubdomain = Sub_bz],
     [PlainEnv EXCEPT !.cmdSubdomain = Sub_abz, !.cmdType = "A"],
     [PlainEnv EXCEPT !.cmdSubdomain = Sub_a, !.cmdType = "TXT"],
     [PlainEnv EXCEPT !.cmdType = "AAAA"],
     [PlainEnv EXCEPT !.cmdType = "TXT"]}

OtherFiles ==
    {[PlainFile EXCEPT !.state = "missing"],
     [PlainFile EXCEPT !.state = "invalid JSON"],
     [PlainFile EXCEPT !.Token = ""],
     [PlainFile EXCEPT !.Records = <<[Type |-> "A", Subdomain |-> Sub_az],
                                     [Type |-> "A", Subdomain |-> Sub_bz]>>],
     [PlainFile EXCEPT !.Records = <<[Type |-> "A", Subdomain |-> Sub_dotz]>>],
     [PlainFile EXCEPT !.Records = <<[Type |-> "A", Subdomain |-> Sub_adot]>>],
     [PlainFile EXCEPT !.Token = "", !.Records = <<>>],
     [PlainFile EXCEPT !.Token = "",
                       !.Records = <<[Type |-> "TXT", Subdomain |-> Sub_a],
                                     [Type |-> "A", Subdomain |-> Sub_bz]>>]}

\* Environments of a run that finds one of the other files: on a terminal,
\* under cron, under systemd, and with an ad-hoc record.
FailingEnvs ==
    {PlainEnv,
     [PlainEnv EXCEPT !.tty = FALSE],
     [PlainEnv EXCEPT !.tty = FALSE, !.systemd = TRUE],
     [PlainEnv EXCEPT !.cmdSubdomain = Sub_bz],
     [PlainEnv EXCEPT !.cmdToken = "cmd-token", !.cmdSubdomain = Sub_bz],
     [PlainEnv EXCEPT !.envToken = "env-token", !.cmdSubdomain = Sub_bz,
                      !.tty = FALSE]}

\* Every combination of the three sources of the token and of the log path
\* (command line, environment variable, file), each given or not, on a
\* terminal and under cron.
SourceEnvs ==
    {[PlainEnv EXCEPT !.tty = t, !.cmdToken = ct, !.envToken = et,
                      !.cmdLog = cl, !.envLog = el] :
        t \in BOOLEAN, ct \in {"", "cmd-token"}, et \in {"", "env-token"},
        cl \in {"", "cmd.log"}, el \in {"", "env.log"}}

SourceFiles ==
    {[PlainFile EXCEPT !.Token = ft, !.Log = fl] :
        ft \in {"", "file-token"}, fl \in {"", "file.log"}}

\* The variables of a run that has not started.
FirstRun ==
    /\ run = 1
    /\ pc = "main"
    /\ status = "running"
    /\ config = NoConfig
    /\ logger = FALSE
    /\ ip = "nil"
    /\ records = <<>>
    /\ k = 0
    /\ listing = <<>>
    /\ calls = <<>>
    /\ results = <<>>
    /\ stdout = <<>>
    /\ stderr = <<>>
    /\ logfile = <<>>

\* Zone z holding recs, zone b.z empty.
Zones(recs) == (Zone_z :> WithIds(recs, 1)) @@ (Zone_bz :> <<>>)

\* Every list of well-formed desired records against every content of zone
\* z; every list of desired records, the ones that fail a check included,
\* against a zone z of at most one record; the other public address and the
\* lists over two zones against every content of zone z; and the other
\* environments and files, and the combinations of the sources of token
\* and log path, against one provider state.
Init ==
    /\ FirstRun
    /\ \/ /\ env = PlainEnv
          /\ \E recs \in SeqsUpTo(ValidRecords, MaxRecords) :
                file = [PlainFile EXCEPT !.Records = recs]
          /\ \E recs \in SeqsUpTo(ZoneRecords, MaxZone) :
                provider = Zones(recs) /\ nextId = Len(recs) + 1
       \/ /\ env = PlainEnv
          /\ \E recs \in SeqsUpTo(DesiredRecords, MaxRecords) :
                file = [PlainFile EXCEPT !.Records = recs]
          /\ \E recs \in SeqsUpTo(ZoneRecords, 1) :
                provider = Zones(recs) /\ nextId = Len(recs) + 1
       \/ /\ \/ /\ env = [PlainEnv EXCEPT !.body = " 198.51.100.1\n"]
                /\ file = PlainFile
             \/ /\ env = PlainEnv
                /\ \E recs \in SeqsUpTo(TwoZoneRecords, MaxRecords) :
                      file = [PlainFile EXCEPT !.Records = recs]
          /\ \E recs \in SeqsUpTo(ZoneRecords, MaxZone) :
                provider = Zones(recs) /\ nextId = Len(recs) + 1
       \/ /\ \/ env \in OtherEnvs /\ file = PlainFile
             \/ env \in FailingEnvs /\ file \in OtherFiles
             \/ env \in SourceEnvs /\ file \in SourceFiles
          /\ provider = Zones(<<[Type |-> "A", Name |-> <<"a">>,
                                 Data |-> "198.51.100.1"]>>)
          /\ nextId = 2
    /\ prev = [status |-> "none", records |-> <<>>, ip |-> "nil", logged |-> 0,
               provider |-> provider]
    /\ cached = NoCache(provider, nextId)

Spec == Init /\ [][Next]_vars

-----------------------------------------------------------------------------
(* Vocabulary of the properties, stated on the desired records and on the  *)
(* log of provider calls rather than on the operators of the run.          *)

\* Positions of '.' in a subdomain, and the first of them.
Dots(subdomain) == {i \in 1..Len(subdomain) : subdomain[i] = "."}
FirstDot(subdomain) ==
    CHOOSE i \in Dots(subdomain) : \A j \in Dots(subdomain) : i <= j

\* Host label and zone of desired record j.
LabelOf(j) == SubSeq(records[j].Subdomain, 1, FirstDot(records[j].Subdomain) - 1)
ZoneNameOf(j) ==
    SubSeq(records[j].Subdomain, FirstDot(records[j].Subdomain) + 1,
           Len(records[j].Subdomain))

\* The run is in, or has left, setSubdomainRecords.
InLoop == ip # "nil"

\* Indexes in the call log of the calls issued for desired record j.
CallsFor(j, ops) == {i \in 1..Len(calls) : calls[i].k = j /\ calls[i].op \in ops}
Mutations == {"edit", "create"}
AnyCall == {"list", "edit", "create"}

\* The listing call for record j was answered, and what it returned.
Listed(j) == \E i \in CallsFor(j, {"list"}) : calls[i].ok
ListingOf(j) == calls[CHOOSE i \in CallsFor(j, {"list"}) : calls[i].ok].returned

\* setSubdomainIP has returned for record j.
Returned(j) == j <= Len(results)

\* Record r has the type and host label of desired record j.
SameKey(r, j) == r.Type = records[j].Type /\ r.Name = LabelOf(j)

\* Positions in the listing for j of the records with j's type and label.
MatchesIn(j) == {m \in 1..Len(ListingOf(j)) : SameKey(ListingOf(j)[m], j)}
FirstIn(j) == CHOOSE m \in MatchesIn(j) : \A n \in MatchesIn(j) : m <= n

\* The string form of the resolved address as the provider stores it.
Address ==
    CASE ip = "v4:203.0.113.9" -> "203.0.113.9"
      [] ip = "v4:198.51.100.1" -> "198.51.100.1"
      [] ip = "v6:2001:db8::1" -> "2001:db8::1"
      [] OTHER -> "none"

Unchanged(j) == results[j] = [resp |-> "", err |-> ""]

\* The one mutating call for record j is an edit of record id carrying j's
\* type, label and the resolved address, and the result is Updated when the
\* provider accepted the call and its error otherwise.
OneEdit(j, id) ==
    /\ Cardinality(CallsFor(j, {"edit"})) = 1
    /\ CallsFor(j, {"create"}) = {}
    /\ \A i \in CallsFor(j, {"edit"}) :
          /\ calls[i].id = id
          /\ calls[i].zone = ZoneNameOf(j)
          /\ calls[i].request = [Type |-> records[j].Type, Name |-> LabelOf(j),
                                 Data |-> Address]
          /\ results[j] = IF calls[i].ok THEN [resp |-> "200 OK", err |-> ""]
                          ELSE [resp |-> "", err |-> "edit failed"]

\* C1 as stated: a record with j's type and label and the resolved address
\* anywhere in the listing means no edit, no create and the Unchanged result.
C1_AsStated ==
    \A j \in 1..Len(records) :
        (Returned(j) /\ Listed(j)
         /\ \E m \in MatchesIn(j) : ListingOf(j)[m].Data = Address)
        => (CallsFor(j, Mutations) = {} /\ Unchanged(j))

\* C1 (amended): when the first record of the listing with the desired type
\* and host label holds the string form of the resolved IP, setSubdomainIP
\* issues no edit and no create call and returns (nil, nil).
C1_FirstMatchCurrent ==
    \A j \in 1..Len(records) :
        (Returned(j) /\ Listed(j) /\ MatchesIn(j) # {}
         /\ ListingOf(j)[FirstIn(j)].Data = Address)
        => (CallsFor(j, Mutations) = {} /\ Unchanged(j))

C1_Witness ==
    \E j \in 1..Len(records) :
        /\ Returned(j) /\ Listed(j) /\ MatchesIn(j) # {}
        /\ ListingOf(j)[FirstIn(j)].Data = Address
        /\ Unchanged(j)

\* C2 as stated: a record with j's type and label and another address
\* anywhere in the listing means exactly one edit, of such a record.
C2_AsStated ==
    \A j \in 1..Len(records) :
        (Returned(j) /\ Listed(j)
         /\ \E m \in MatchesIn(j) : ListingOf(j)[m].Data # Address)
        => \E m \in MatchesIn(j) :
              /\ ListingOf(j)[m].Data # Address
              /\ OneEdit(j, ListingOf(j)[m].ID)

\* C2 (amended): when the first record of the listing with the desired type
\* and host label holds data other than the resolved IP, setSubdomainIP
\* issues exactly one edit call, for that record's id in the record's zone,
\* with the same type and host label and the resolved IP as data, and no
\* create call; the result is Updated when the provider accepts the edit.
C2_FirstMatchStale ==
    \A j \in 1..Len(records) :
        (Returned(j) /\ Listed(j) /\ MatchesIn(j) # {}
         /\ ListingOf(j)[FirstIn(j)].Data # Address)
        => OneEdit(j, ListingOf(j)[FirstIn(j)].ID)

C2_Witness ==
    \E j \in 1..Len(records) :
        /\ Returned(j) /\ Listed(j) /\ MatchesIn(j) # {}
        /\ ListingOf(j)[FirstIn(j)].Data # Address
        /\ results[j].resp = "200 OK"

\* C3: when no record of the listing has both the desired type and the host
\* label, setSubdomainIP issues exactly one create call with the desired
\* type, the host label as name and the resolved IP as data, and no edit
\* call; the result is Created when the provider accepts the create.
C3_NoMatchCreates ==
    \A j \in 1..Len(records) :
        (Returned(j) /\ Listed(j) /\ MatchesIn(j) = {})
        => /\ Cardinality(CallsFor(j, {"create"})) = 1
           /\ CallsFor(j, {"edit"}) = {}
           /\ \A i \in CallsFor(j, {"create"}) :
                 /\ calls[i].zone = ZoneNameOf(j)
                 /\ calls[i].request = [Type |-> records[j].Type,
                                        Name |-> LabelOf(j), Data |-> Address]
                 /\ results[j] = IF calls[i].ok
                                 THEN [resp |-> "201 Created", err |-> ""]
                                 ELSE [resp |-> "", err |-> "create failed"]

C3_Witness ==
    \E j \in 1..Len(records) :
        /\ Returned(j) /\ Listed(j) /\ MatchesIn(j) = {}
        /\ Len(ListingOf(j)) > 0
        /\ results[j].resp = "201 Created"

-----------------------------------------------------------------------------
(* Properties of a whole run. *)

\* Records of desired record j's zone with j's type and label that hold the
\* resolved address, by position.
Converged(j) ==
    IF ZoneNameOf(j) \in DOMAIN provider
    THEN {m \in 1..Len(provider[ZoneNameOf(j)]) :
             /\ SameKey(provider[ZoneNameOf(j)][m], j)
             /\ provider[ZoneNameOf(j)][m].Data = Address}
    ELSE {}

\* The run has gone through setSubdomainRecords and ended with status 0.
Succeeded == status = "exit0" /\ InLoop

\* C4 as stated: after a successful run every desired record has exactly
\* one provider record of its type and label with the resolved address.
C4_AsStated ==
    Succeeded => \A j \in 1..Len(records) : Cardinality(Converged(j)) = 1

\* C4 (amended): after a run that completes successfully, for every desired
\* record there is at least one provider record in the record's zone with
\* the same type and host label whose data equals the resolved public IP.
C4_AtLeastOne ==
    Succeeded => \A j \in 1..Len(records) : Converged(j) # {}

C4_Witness ==
    /\ Succeeded
    /\ Len(records) = 2
    /\ \E i \in 1..Len(calls) : calls[i].op = "edit"
    /\ \E i \in 1..Len(calls) : calls[i].op = "create"

\* C5: a second run with the same desired records and the same resolved
\* IP, after a run that completed successfully, issues no edit and no
\* create call.
C5_SecondRunIdle ==
    (run > 1 /\ prev.status = "exit0" /\ InLoop
     /\ prev.records = records /\ prev.ip = ip)
    => \A i \in 1..Len(calls) : calls[i].op \notin Mutations

\* A desired record that does not pass the checks of the loop.
Malformed(j) ==
    \/ records[j].Type \notin {"A", "AAAA"}
    \/ Dots(records[j].Subdomain) = {}

\* The last diagnostic written, on standard error or in the log file.
Diagnosed(text, arg, err) ==
    LET line == [prog |-> "do-dyndns", text |-> text, arg |-> arg, err |-> err] IN
    \/ stderr # <<>> /\ stderr[Len(stderr)] = line
    \/ logfile # <<>> /\ logfile[Len(logfile)] = line

\* The run has ended at record j with exit status 1.
DiedAt(j) == status = "exit1" /\ pc = "exit" /\ k = j

\* C6: desired records are processed one at a time in the order supplied,
\* each to completion before the next begins: the calls of a record are its
\* listing and then at most one mutation, no call is issued for a record
\* the loop has not reached, and the loop goes past a record only when the
\* record passed the checks and none of its calls failed; a run that ended
\* in failure at record k has issued no call for records k+1..n.
C6_FailFast ==
    InLoop =>
    /\ \A i \in 1..Len(calls) :
          /\ calls[i].k \in 1..Len(records) /\ calls[i].k <= k
          /\ i > 1 => calls[i - 1].k <= calls[i].k
          /\ calls[i].op \in Mutations =>
                /\ i > 1
                /\ calls[i - 1] = [calls[i - 1] EXCEPT !.op = "list", !.ok = TRUE,
                                                      !.k = calls[i].k]
    /\ \A j \in 1..Len(records) :
          /\ Cardinality(CallsFor(j, {"list"})) <= 1
          /\ Cardinality(CallsFor(j, Mutations)) <= 1
          /\ j < k => /\ ~Malformed(j)
                      /\ \A i \in CallsFor(j, AnyCall) : calls[i].ok
                      /\ Returned(j) /\ results[j].err = ""
    /\ status # "running" => pc = "exit"
    /\ status = "exit0" => k = Len(records) + 1

C6_Witness ==
    /\ DiedAt(2) /\ Len(records) = 2
    /\ CallsFor(1, Mutations) # {}
    /\ \E i \in CallsFor(2, AnyCall) : ~calls[i].ok

-----------------------------------------------------------------------------
(* Validation and error handling. *)

\* C7 as stated: when any record of the list is malformed, the run does not
\* succeed and there is no partial success: no edit or create call of the
\* run has changed a provider record.
C7_AsStated ==
    (InLoop /\ \E j \in 1..Len(records) : Malformed(j))
    => /\ status # "exit0"
       /\ \A i \in 1..Len(calls) : calls[i].op \in Mutations => ~calls[i].ok

\* C7 (amended): each desired record is checked when the loop reaches it,
\* before its own synchronization: when record j has a type other than A or
\* AAAA, an empty subdomain or a subdomain without a '.', the run never
\* succeeds, never goes past record j and issues no provider call for
\* record j or a later one, and on reaching j it terminates with status 1
\* and a diagnostic; edit and create calls already issued for records
\* 1..j-1 stand.
C7_CheckedWhenReached ==
    \A j \in 1..Len(records) :
        (InLoop /\ Malformed(j))
        => /\ status # "exit0"
           /\ k <= j
           /\ \A n \in j..Len(records) : CallsFor(n, AnyCall) = {}
           /\ (k = j /\ pc # "loop") =>
                 /\ DiedAt(j)
                 /\ \/ Diagnosed("invalid type", records[j].Type, "")
                    \/ Diagnosed("missing subdomain", "", "")
                    \/ Diagnosed("invalid subdomain", records[j].Subdomain, "")

C7_Witness ==
    /\ Len(records) = 2 /\ Malformed(2) /\ DiedAt(2)
    /\ \E i \in CallsFor(1, Mutations) : calls[i].ok

\* C8 as stated: a record whose subdomain has no '.' fails with the
\* invalid-subdomain error (an empty subdomain is reported as missing)
\* before any provider call is issued for it.
C8_AsStated ==
    \A j \in 1..Len(records) :
        (InLoop /\ Dots(records[j].Subdomain) = {} /\ k = j /\ pc # "loop")
        => /\ DiedAt(j)
           /\ CallsFor(j, AnyCall) = {}
           /\ \/ Diagnosed("invalid subdomain", records[j].Subdomain, "")
              \/ Diagnosed("missing subdomain", "", "")

\* C8 (amended): for every desired record whose type is A or AAAA and whose
\* subdomain contains no '.', synchronization of that record fails before
\* any provider call is issued for it, with the missing-subdomain
\* diagnostic when the subdomain is empty and the invalid-subdomain
\* diagnostic otherwise; when the type is invalid as well, the invalid-type
\* diagnostic is the one reported.
C8_NoSeparator ==
    \A j \in 1..Len(records) :
        (InLoop /\ Dots(records[j].Subdomain) = {} /\ k = j /\ pc # "loop")
        => /\ DiedAt(j)
           /\ CallsFor(j, AnyCall) = {}
           /\ IF records[j].Type \notin {"A", "AAAA"}
              THEN Diagnosed("invalid type", records[j].Type, "")
              ELSE IF records[j].Subdomain = <<>>
              THEN Diagnosed("missing subdomain", "", "")
              ELSE Diagnosed("invalid subdomain", records[j].Subdomain, "")

C8_Witness ==
    \E j \in 1..Len(records) :
        /\ records[j].Type = "A" /\ records[j].Subdomain # <<>>
        /\ Dots(records[j].Subdomain) = {}
        /\ DiedAt(j)

\* C9: a record whose type is not exactly "A" or "AAAA" fails with the
\* invalid-type error before any provider call is issued for it.
C9_InvalidType ==
    \A j \in 1..Len(records) :
        (InLoop /\ records[j].Type \notin {"A", "AAAA"} /\ k = j /\ pc # "loop")
        => /\ DiedAt(j)
           /\ CallsFor(j, AnyCall) = {}
           /\ Diagnosed("invalid type", records[j].Type, "")

C9_Witness ==
    \E j \in 1..Len(records) :
        /\ records[j].Type = "TXT" /\ Dots(records[j].Subdomain) # {}
        /\ DiedAt(j)

\* C10: when the listing call for a record's zone fails, setSubdomainIP
\* returns that error, no edit or create call is issued for the record and
\* the run terminates with failure.
C10_ListingFails ==
    \A j \in 1..Len(records) :
        (\E i \in CallsFor(j, {"list"}) : ~calls[i].ok)
        => /\ Returned(j) /\ results[j] = [resp |-> "", err |-> "list failed"]
           /\ CallsFor(j, Mutations) = {}
           /\ DiedAt(j)
           /\ Diagnosed("error setting subdomain IP", "", "list failed")

C10_Witness ==
    /\ Len(records) = 2
    /\ \E i \in CallsFor(1, {"list"}) : ~calls[i].ok
    /\ DiedAt(1)

\* C11: a subdomain is split at its first '.' only: the host label is the
\* text before it and the zone all the text after it, so a.b.z gives label a
\* and zone b.z; the listing, edit and create calls of a record all use that
\* zone, and the edit and create requests that host label.
C11_FirstDotSplit ==
    \A i \in 1..Len(calls) :
        LET j == calls[i].k IN
        /\ j \in 1..Len(records)
        /\ Dots(records[j].Subdomain) # {}
        /\ calls[i].zone = ZoneNameOf(j)
        /\ calls[i].op \in Mutations => calls[i].request.Name = LabelOf(j)
        /\ records[j].Subdomain = <<"a", ".", "b", ".", "z">>
           => /\ calls[i].zone = <<"b", ".", "z">>
              /\ calls[i].op \in Mutations => calls[i].request.Name = <<"a">>

C11_Witness ==
    \E i, n \in 1..Len(calls) :
        /\ calls[i].k = calls[n].k
        /\ records[calls[i].k].Subdomain = <<"a", ".", "b", ".", "z">>
        /\ calls[i].op = "list" /\ calls[i].ok
        /\ calls[n].op = "create" /\ calls[n].ok

\* The value of --type as the command line of the run gives it.
TypeGiven == IF env.cmdType = "" THEN "A" ELSE env.cmdType

\* C12: when a subdomain is supplied on the command line the run
\* synchronizes exactly one record, of the type given with --type or "A",
\* and that subdomain, and no provider call is issued for a record of the
\* configuration file; when none is supplied exactly the configured records
\* are synchronized, whatever --type says.
C12_AdHocReplaces ==
    InLoop =>
        /\ env.cmdSubdomain # <<>> =>
              /\ records = <<[Type |-> TypeGiven, Subdomain |-> env.cmdSubdomain]>>
              /\ \A i \in 1..Len(calls) :
                    /\ calls[i].k = 1
                    /\ calls[i].op \in Mutations =>
                          /\ calls[i].request.Type = TypeGiven
                          /\ calls[i].request.Name \o <<".">> \o calls[i].zone
                                = env.cmdSubdomain
                    /\ calls[i].op = "list" =>
                          \E label \in {<<"a">>, <<"b">>} :
                              label \o <<".">> \o calls[i].zone = env.cmdSubdomain
        /\ env.cmdSubdomain = <<>> =>
              /\ records = file.Records
              /\ \A i \in 1..Len(calls) :
                    /\ calls[i].k \in 1..Len(file.Records)
                    /\ calls[i].op \in Mutations =>
                          /\ calls[i].request.Type = file.Records[calls[i].k].Type
                          /\ calls[i].request.Name \o <<".">> \o calls[i].zone
                                = file.Records[calls[i].k].Subdomain

\* An ad-hoc record of the default type has been created while the file
\* lists another record.
C12_Witness ==
    /\ env.cmdSubdomain = <<"b", ".", "z">> /\ env.cmdType = ""
    /\ file.Records = <<[Type |-> "A", Subdomain |-> <<"a", ".", "z">>]>>
    /\ status = "exit0"
    /\ \E i \in 1..Len(calls) :
          /\ calls[i].op = "create" /\ calls[i].ok
          /\ calls[i].request.Type = "A" /\ calls[i].request.Name = <<"b">>

\* A run with --type AAAA and no subdomain has edited the configured A
\* record.
C12_TypeAloneReached ==
    /\ env.cmdSubdomain = <<>> /\ env.cmdType = "AAAA"
    /\ status = "exit0"
    /\ \E i \in 1..Len(calls) :
          calls[i].op = "edit" /\ calls[i].ok /\ calls[i].request.Type = "A"

\* readConfig has returned a configuration to main.
Configured ==
    /\ ~env.help /\ ~env.version
    /\ file.state = "ok"
    /\ pc \notin {"main", "readConfig"}

\* The value that wins among a command-line value, an environment variable
\* and a file value, "" standing for a source that gives none.
Effective(cmdValue, envValue, fileValue) ==
    CASE cmdValue # "" -> cmdValue
      [] cmdValue = "" /\ envValue # "" -> envValue
      [] OTHER -> fileValue

\* C13: for the token and for the log path the effective value is the
\* command-line value when one is given, otherwise the value of the
\* environment variable (DYNDNS_TOKEN, DYNDNS_LOG) when set, otherwise the
\* value of the configuration file, for every combination of the sources.
C13_Precedence ==
    Configured =>
        /\ config.Token = Effective(env.cmdToken, env.envToken, file.Token)
        /\ config.Log = Effective(env.cmdLog, env.envLog, file.Log)

\* All three sources give a token and the command line wins; environment
\* and file give a log path and the environment wins.
C13_Witness ==
    /\ Configured
    /\ env.cmdToken = "cmd-token" /\ env.envToken = "env-token"
    /\ file.Token = "file-token" /\ config.Token = "cmd-token"
    /\ env.cmdLog = "" /\ env.envLog = "env.log"
    /\ file.Log = "file.log" /\ config.Log = "env.log"
    /\ status = "exit0"

\* The lines the current run has written to the log file.
LoggedNow == SubSeq(logfile, prev.logged + 1, Len(logfile))

\* Report lines and diagnostic lines, told apart by their shape.
IsReport(line) == DOMAIN line = {"status", "type", "ip", "subdomain"}
IsDiagnostic(line) ==
    /\ DOMAIN line = {"prog", "text", "arg", "err"}
    /\ line.text \notin {"usage", "version"}

\* The report lines of the current run in the order they were written,
\* wherever they went.
Emitted == SelectSeq(stdout \o stderr \o LoggedNow, IsReport)

\* The provider accepted an edit or a create for record j, and the status
\* of its response.
Mutated(j) == \E i \in CallsFor(j, Mutations) : calls[i].ok
StatusOf(j) ==
    IF \E i \in CallsFor(j, {"edit"}) : calls[i].ok THEN "200 OK" ELSE "201 Created"

\* "{providerStatus}: set {type} {ip} for {subdomain}" for every record from
\* j on that was created or updated, in processing order.
RECURSIVE ExpectedFrom(_)
ExpectedFrom(j) ==
    IF j > Len(records) THEN <<>>
    ELSE (IF Mutated(j)
          THEN <<[status |-> StatusOf(j), type |-> records[j].Type,
                  ip |-> Address, subdomain |-> records[j].Subdomain]>>
          ELSE <<>>) \o ExpectedFrom(j + 1)

\* C14: a run emits exactly one report line "{providerStatus}: set {type}
\* {ip} for {subdomain}" for each desired record it created or updated, in
\* processing order, and none for a record whose outcome is Unchanged.
C14_ReportLines == Emitted = ExpectedFrom(1)

\* Two records, the first updated and the second created, both reported.
C14_Witness ==
    /\ Len(results) = 2 /\ status = "exit0"
    /\ Len(Emitted) = 2
    /\ Emitted[1].status = "200 OK" /\ Emitted[2].status = "201 Created"

\* Two records, the first Unchanged and the second created: one line.
C14_UnchangedSilent ==
    /\ Len(results) = 2 /\ status = "exit0"
    /\ Unchanged(1)
    /\ Len(Emitted) = 1 /\ Emitted[1].subdomain = records[2].Subdomain

\* The diagnostic lines of the current run, wherever they went.
Diagnostics == SelectSeq(stdout \o stderr \o LoggedNow, IsDiagnostic)

\* Configuration, token check, address discovery and the synchronization of
\* every desired record have succeeded.
AllSucceeded ==
    /\ Configured
    /\ Effective(env.cmdToken, env.envToken, file.Token) # ""
    /\ InLoop
    /\ \A j \in 1..Len(records) : Returned(j) /\ results[j].err = ""

\* C15: a run (one that is not a request for the help or version text) ends
\* with status 0 exactly when configuration, token check, IP discovery and
\* the synchronization of every desired record all succeeded; a failure at
\* any validation or network step ends it with status 1 after one
\* diagnostic line prefixed with the program name; there is no third exit
\* status.
C15_ExitStatus ==
    (~env.help /\ ~env.version) =>
        /\ status \in {"running", "exit0", "exit1"}
        /\ status # "running" => (status = "exit0" <=> AllSucceeded)
        /\ status # "exit1" => Diagnostics = <<>>
        /\ status = "exit1" =>
              /\ Len(Diagnostics) = 1
              /\ Diagnostics[1].prog = "do-dyndns"
              /\ ~AllSucceeded

\* A run that updated its first record and failed at the second has ended
\* with status 1 and one diagnostic.
C15_Witness ==
    /\ ~env.help /\ ~env.version
    /\ status = "exit1"
    /\ Len(results) = 2 /\ results[1].err = "" /\ results[2].err # ""
    /\ Len(Diagnostics) = 1

\* A run has ended with status 0 after synchronizing two records.
C15_SuccessReached ==
    /\ ~env.help /\ ~env.version
    /\ status = "exit0" /\ Len(records) = 2 /\ AllSucceeded

\* C16: when the effective token is empty the run terminates with failure
\* before public-IP discovery and before any provider call, whatever the
\* records are.
C16_TokenRequired ==
    (~env.help /\ ~env.version /\ file.state = "ok"
     /\ Effective(env.cmdToken, env.envToken, file.Token) = "")
    => /\ pc \in {"main", "readConfig", "initLogger", "token", "exit"}
       /\ ip = "nil" /\ records = <<>> /\ calls = <<>>
       /\ pc = "exit" =>
             /\ status = "exit1"
             /\ Len(Diagnostics) = 1
             /\ Diagnostics[1].text \in {"missing token", "error writing to log file"}
       /\ pc = "exit" /\ (OnConsole \/ logger) =>
             Diagnostics = <<[prog |-> "do-dyndns", text |-> "missing token",
                              arg |-> "", err |-> ""]>>

\* A run whose file lists two records and whose three sources give no
\* token has ended at the token check.
C16_Witness ==
    /\ Len(file.Records) = 2
    /\ file.Token = "" /\ env.cmdToken = "" /\ env.envToken = ""
    /\ status = "exit1" /\ pc = "exit"
    /\ Diagnostics # <<>> /\ Diagnostics[1].text = "missing token"
    /\ calls = <<>> /\ ip = "nil"

\* The same with an ad-hoc record on the command line.
C16_AdHocReached ==
    /\ env.cmdSubdomain # <<>>
    /\ file.Token = "" /\ env.cmdToken = "" /\ env.envToken = ""
    /\ status = "exit1"
    /\ Diagnostics # <<>> /\ Diagnostics[1].text = "missing token"

\* Address literals of the two families.
IsIPv4(text) == text \in {"203.0.113.9", "198.51.100.1"}
IsIPv6(text) == text \in {"2001:db8::1"}

\* C17: the record type selects the address family: the data written by a
\* create or edit call for a record of type A is an IPv4 address and for a
\* record of type AAAA an IPv6 address.
C17_FamilyByType ==
    \A i \in 1..Len(calls) :
        calls[i].op \in Mutations =>
            /\ calls[i].request.Type = "A" => IsIPv4(calls[i].request.Data)
            /\ calls[i].request.Type = "AAAA" => IsIPv6(calls[i].request.Data)

\* Everything the current run has written, and where.
NothingLogged == LoggedNow = <<>>
OnlyLogged == stdout = <<>> /\ stderr = <<>>

C18_SystemdReached ==
    /\ ~env.tty /\ env.systemd
    /\ status = "exit0" /\ stdout # <<>> /\ IsReport(stdout[1])

\* Under cron a run has ended before the logger was there, its diagnostic
\* on standard error.
C18_EarlyReached ==
    /\ ~env.tty /\ ~env.systemd /\ ~logger
    /\ status = "exit1" /\ stderr # <<>> /\ NothingLogged

\* The first record of the listing for j with j's type and label holds the
\* resolved address: the case in which setSubdomainIP leaves the zone alone.
FirstIsCurrent(j) ==
    MatchesIn(j) # {} /\ ListingOf(j)[FirstIn(j)].Data = Address

\* C19: for each desired record the run processes there is exactly one
\* listing call and at most one mutating call, one edit or one create and
\* never both, none only when the outcome is Unchanged; no call is repeated
\* after a failure, and records that share a zone are not batched: each has
\* its own listing call.
C19_CallsPerRecord ==
    /\ \A j \in 1..Len(records) :
          /\ Cardinality(CallsFor(j, {"list"})) <= 1
          /\ Returned(j) => Cardinality(CallsFor(j, {"list"})) = 1
          /\ Cardinality(CallsFor(j, Mutations)) <= 1
          /\ CallsFor(j, Mutations) # {} => Listed(j)
          /\ (Returned(j) /\ Listed(j)) =>
                /\ CallsFor(j, Mutations) = {} <=> Unchanged(j)
                /\ Unchanged(j) <=> FirstIsCurrent(j)
    /\ \A i \in 1..Len(calls) :
          /\ calls[i].k \in 1..Len(records)
          /\ ~calls[i].ok => i = Len(calls)
          /\ calls[i].op = "list" => calls[i].zone = ZoneNameOf(calls[i].k)

\* Two records of one zone, each with its own listing call, the first
\* Unchanged without a mutating call and the second created.
C19_Witness ==
    /\ Len(records) = 2 /\ Len(results) = 2
    /\ ZoneNameOf(1) = ZoneNameOf(2)
    /\ Cardinality(CallsFor(1, {"list"})) = 1
    /\ Cardinality(CallsFor(2, {"list"})) = 1
    /\ Unchanged(1) /\ CallsFor(1, Mutations) = {}
    /\ \E i \in CallsFor(2, {"create"}) : calls[i].ok

\* A failed edit was the last call of its run.
C19_FailureReached ==
    /\ Len(records) = 2
    /\ \E i \in CallsFor(1, {"edit"}) : ~calls[i].ok
    /\ status = "exit1" /\ Len(calls) = 2

\* Positions in the listing at hand of the records with the type and label
\* of the record the loop is at, and the first of them.
Duplicates == {m \in 1..Len(listing) : SameKey(listing[m], k)}
FirstDuplicate == CHOOSE m \in Duplicates : \A n \in Duplicates : m <= n

\* Every provider record but the one with the given id is after the step
\* what it was before it, and no record was added or removed.
OthersUntouched(id) ==
    /\ DOMAIN provider' = DOMAIN provider
    /\ \A zone \in DOMAIN provider :
          /\ Len(provider'[zone]) = Len(provider[zone])
          /\ \A i \in 1..Len(provider[zone]) :
                provider[zone][i].ID # id => provider'[zone][i] = provider[zone][i]

\* C20: when several records of the zone listing have the desired type and
\* host label, only the first in listing order decides: when its data is
\* the resolved IP no call is issued, even when a later duplicate holds
\* another address, and otherwise only the first is edited; every other
\* record of the zone, later duplicates included, is left as it was.
C20_FirstDuplicateOnly ==
    [][(pc = "sync" /\ status = "running" /\ Cardinality(Duplicates) >= 2) =>
          LET first == listing[FirstDuplicate] IN
          IF first.Data = Address
          THEN /\ calls' = calls
               /\ provider' = provider
               /\ results' = Append(results, [resp |-> "", err |-> ""])
          ELSE /\ Len(calls') = Len(calls) + 1
               /\ calls'[Len(calls')].op = "edit"
               /\ calls'[Len(calls')].id = first.ID
               /\ calls'[Len(calls')].zone = ZoneNameOf(k)
               /\ OthersUntouched(first.ID)
               /\ calls'[Len(calls')].ok =>
                     \E i \in 1..Len(provider'[ZoneNameOf(k)]) :
                         /\ provider'[ZoneNameOf(k)][i].ID = first.ID
                         /\ provider'[ZoneNameOf(k)][i].Data = Address
      ]_vars

\* The first of two stale duplicates was edited and the second still holds
\* the old address.
C20_Witness ==
    \E j \in 1..Len(results) :
        /\ Listed(j) /\ Cardinality(MatchesIn(j)) = 2
        /\ \E i \in CallsFor(j, {"edit"}) :
              /\ calls[i].ok
              /\ calls[i].id = ListingOf(j)[FirstIn(j)].ID
              /\ \E m \in MatchesIn(j) :
                    /\ m # FirstIn(j)
                    /\ ListingOf(j)[m].Data # Address
                    /\ ListingOf(j)[m] \in
                          {provider[ZoneNameOf(j)][n] :
                              n \in 1..Len(provider[ZoneNameOf(j)])}

\* The first duplicate is current, a later one holds another address, and
\* no call was issued.
C20_CurrentFirstReached ==
    \E j \in 1..Len(results) :
        /\ Listed(j) /\ Cardinality(MatchesIn(j)) = 2
        /\ Unchanged(j) /\ CallsFor(j, Mutations) = {}
        /\ \E m \in MatchesIn(j) : ListingOf(j)[m].Data # Address

\* The edit and create calls of the reference run, in the order issued.
IsMutation(call) == call.op \in Mutations
MutationLog == SelectSeq(calls, IsMutation)

\* Every listing call the reference run issued was answered.
ListingsAnswered == \A i \in 1..Len(calls) : calls[i].op = "list" => calls[i].ok

\* The run with one listing per zone has issued the edit and create calls of
\* the reference run and left the provider records the reference run left.
SameAsCached ==
    /\ cached.calls = MutationLog
    /\ cached.provider = provider

\* No (type, subdomain) is named twice in the list of desired records.
DistinctRecords ==
    \A i, j \in 1..Len(records) : i # j => records[i] # records[j]

\* C21 as stated: for every list of desired records, lists that name the
\* same type and subdomain more than once included, and every provider
\* state, the run that lists each zone once and reuses the listing issues
\* the same sequence of edit and create calls as the reference run and
\* leaves the same provider records.
C21_AsStated == ListingsAnswered => SameAsCached

\* C21 (amended): for every list of desired records in which no (type,
\* subdomain) is named twice, and every provider state, the run that lists
\* each zone once and reuses the listing issues the same sequence of edit
\* and create calls as the reference run and leaves the same provider
\* records, as long as every listing call of the reference run is answered.
C21_CachedEquivalent == (ListingsAnswered /\ DistinctRecords) => SameAsCached

\* Two different records of one zone were both created; the reference run
\* listed the zone twice, the other run once.
C21_Witness ==
    /\ Len(records) = 2 /\ records[1] # records[2]
    /\ status = "exit0"
    /\ ZoneNameOf(1) = ZoneNameOf(2)
    /\ Cardinality(CallsFor(1, {"list"}) \cup CallsFor(2, {"list"})) = 2
    /\ Cardinality(DOMAIN cached.listings) = 1
    /\ Len(cached.calls) = 2 /\ SameAsCached

\* The reference run ended at a listing call that failed while the other
\* run held the zone's listing and had no call to make.
C21_FailedListingReached ==
    /\ Len(records) = 2 /\ status = "exit1"
    /\ \E i \in CallsFor(2, {"list"}) : ~calls[i].ok
    /\ cached.alive /\ ZoneNameOf(2) \in DOMAIN cached.listings

\* The response body of the address-echo service is, once trimmed, no IP
\* literal.
Unparsable == env.body \in {"no address", "\n"}

\* C22: when the response body of the address-echo service, after trimming,
\* does not parse as an IP literal, public-IP discovery returns an error and
\* the run terminates with failure without issuing any provider call; a nil
\* or unparsed address is never passed on as record data.
C22_NoAddressNoCall ==
    /\ (~env.help /\ ~env.version /\ Unparsable) =>
          /\ ip = "nil" /\ calls = <<>>
          /\ pc \notin {"loop", "list", "sync"}
          /\ pc = "exit" =>
                /\ status = "exit1"
                /\ Len(Diagnostics) = 1
                /\ Diagnostics[1].text = "error getting public IP"
                   => Diagnostics[1].err \in {"no IPv4 found", "get failed"}
    /\ \A i \in 1..Len(calls) :
          calls[i].op \in Mutations =>
              IsIPv4(calls[i].request.Data) \/ IsIPv6(calls[i].request.Data)

\* The service answered with text that is no address and the run ended
\* with the error of the parse.
C22_Witness ==
    /\ env.body = "no address"
    /\ status = "exit1" /\ pc = "exit"
    /\ Diagnostics = <<[prog |-> "do-dyndns", text |-> "error getting public IP",
                        arg |-> "", err |-> "no IPv4 found"]>>
    /\ calls = <<>>

\* Positions in the zone of record j, as the provider holds it now, of the
\* records with j's type and label.
HeldFor(j) ==
    {n \in 1..Len(provider[ZoneNameOf(j)]) : SameKey(provider[ZoneNameOf(j)][n], j)}

\* C23: the records compared against a desired record are the full set of
\* the zone's records fetched in that run: the listing at hand is the whole
\* zone, and a provider record with the desired type and host label is
\* found, so that a create is issued only for a record the zone does not
\* hold, however many records the zone holds and wherever the record
\* stands among them.
C23_WholeZoneCompared ==
    /\ pc = "sync" => listing = provider[ZoneNameOf(k)]
    /\ \A i \in 1..Len(calls) :
          (i = Len(calls) /\ calls[i].op = "create" /\ calls[i].ok)
          => Cardinality(HeldFor(calls[i].k)) = 1

\* Zone data p holds two records of one zone with the same type and name.
HasDuplicates(p) ==
    \E zone \in DOMAIN p :
        \E i, j \in 1..Len(p[zone]) :
            /\ i # j
            /\ p[zone][i].Type = p[zone][j].Type
            /\ p[zone][i].Name = p[zone][j].Name

\* Every record the provider held when the run started is still there with
\* its id, type and name.
NothingDeleted ==
    \A zone \in DOMAIN prev.provider :
        /\ zone \in DOMAIN provider
        /\ \A i \in 1..Len(prev.provider[zone]) :
              \E n \in 1..Len(provider[zone]) :
                  /\ provider[zone][n].ID = prev.provider[zone][i].ID
                  /\ provider[zone][n].Type = prev.provider[zone][i].Type
                  /\ provider[zone][n].Name = prev.provider[zone][i].Name

\* C24: a run never introduces duplicates and never deletes: if no zone
\* held two records with the same (type, host label) before the run, none
\* does in any state of the run, whether it completes or aborts, also for
\* lists that name the same type and subdomain twice; and every record
\* present before the run is still present with the same id, type and name.
C24_NoDuplicatesNoDeletion ==
    /\ ~HasDuplicates(prev.provider) => ~HasDuplicates(provider)
    /\ NothingDeleted

\* The second half of C24 alone.
C24_NeverDeletes == NothingDeleted

\* C25: every listing, edit or create call issued by a run carries a
\* non-empty zone, and every edit or create call a non-empty host label,
\* for every desired record that passes validation (a non-empty subdomain
\* containing a '.'), subdomains that begin or end with '.' included.
C25_NonEmptyZoneAndLabel ==
    \A i \in 1..Len(calls) :
        /\ calls[i].zone # <<>>
        /\ calls[i].op \in Mutations => calls[i].request.Name # <<>>

\* A record whose subdomain begins with '.' was created with an empty name.
C25_EmptyLabelReached ==
    \E i \in 1..Len(calls) :
        /\ records[calls[i].k].Subdomain = <<".", "z">>
        /\ calls[i].op = "create" /\ calls[i].ok
        /\ calls[i].request.Name = <<>>

\* The listing for a record whose subdomain ends with '.' was requested for
\* an empty zone.
C25_EmptyZoneReached ==
    \E i \in 1..Len(calls) :
        /\ records[calls[i].k].Subdomain = <<"a", ".">>
        /\ calls[i].op = "list" /\ calls[i].zone = <<>>

\* C26: a readable configuration file is required for every run: when
\* neither the primary nor the legacy file can be read, or the content is
\* not valid JSON, the run terminates with failure before the token check,
\* IP discovery and any provider call, also when the token and the
\* subdomain are both supplied through the environment or the command
\* line; environment and command-line values are merged only after the
\* file was read.
C26_FileRequired ==
    (~env.help /\ ~env.version /\ file.state \in {"missing", "invalid JSON"})
    => /\ pc \in {"main", "readConfig", "exit"}
       /\ config = [Token |-> "", Log |-> "", Records |-> <<>>]
       /\ ~logger /\ ip = "nil" /\ records = <<>> /\ calls = <<>>
       /\ pc = "exit" =>
             /\ status = "exit1"
             /\ Diagnostics = <<[prog |-> "do-dyndns",
                                 text |-> "error reading configuration",
                                 arg |-> "", err |-> file.state]>>

\* No file, token and subdomain on the command line: the run has ended at
\* readConfig.
C26_Witness ==
    /\ file.state = "missing"
    /\ env.cmdToken = "cmd-token" /\ env.cmdSubdomain # <<>>
    /\ status = "exit1" /\ pc = "exit"
    /\ Len(Diagnostics) = 1 /\ Diagnostics[1].text = "error reading configuration"
    /\ calls = <<>>

\* A file that does not parse, the token in the environment, a subdomain on
\* the command line, under cron.
C26_InvalidReached ==
    /\ file.state = "invalid JSON"
    /\ env.envToken = "env-token" /\ env.cmdSubdomain # <<>>
    /\ status = "exit1" /\ calls = <<>>

====
